---- MODULE Spec2Model ----
(***************************************************************************)
(* The finance_memory document store of finance_agent                      *)
(* (src/database/finance_memory.py, class FinanceMemoryManager) as a state *)
(* machine.  The collection is a MongoDB collection with no unique index   *)
(* on user_id: a sequence of documents in insertion (natural) order.       *)
(* Callers are the request handlers; each store method is a sequence of    *)
(* steps, one per clock read or collection call, so that calls of          *)
(* different callers interleave between the steps (Spec) or run one after  *)
(* the other (SpecSerial).  Further parts model the construction of the    *)
(* store and its connection (SpecConnect), the two parsers of provider     *)
(* output in src/main.py and src/services/finance_chat.py (SpecJson),      *)
(* analyze_user_finances on top of the store (SpecAnalyze) and             *)
(* _remove_nulls (SpecNulls).                                              *)
(***************************************************************************)
EXTENDS Integers, Sequences, FiniteSets, TLC

\* ------------------------------------------------------------------ bounds
MaxClock == 1
MaxVersion == 3
MaxId == 2
\* Longest sequence inside a value given to _remove_nulls.
MaxLen == 2

Users == {"u1", "u2"}
\* The user_id concurrent callers race on.
RaceUsers == {"u1"}
Procs == {1, 2}

\* ------------------------------------------------------- Python values
\* Every value carries a tag, so that values of different Python types
\* compare unequal.
None == [t |-> "None"]
Dict(kv) == [t |-> "dict", kv |-> kv]
EmptyDict == Dict({})
Str(s) == [t |-> "str", s |-> s]
Bool(b) == [t |-> "bool", b |-> b]
List(items) == [t |-> "list", items |-> items]

\* Python truth of a value: None, {} , [] and "" are false.
Truthy(v) ==
    /\ v # None
    /\ v # EmptyDict
    /\ v # List(<<>>)
    /\ v # Str("")
    /\ v # Bool(FALSE)

\* a or b
Or(a, b) == IF Truthy(a) THEN a ELSE b

\* ------------------------------------------------------------- inputs
\* (profile_data, additional_insights, profile_summary) of a store call;
\* additional_insights and profile_summary default to None.
StoreArgs ==
    { <<"p1", None, None>>,
      <<"p2", Dict({<<"a", 1>>, <<"b", 2>>}), Str("s1")>> }
PatchArgs == {Dict({<<"c", 3>>})}
Limits == {0, 10}

\* ---------------------------------------------------------------- state
VARIABLES
    collection,   \* db["finance_memory"]: documents in natural order
    nextId,       \* the next ObjectId insert_one allocates
    now,          \* datetime.utcnow()
    pc,           \* each caller's position
    call,         \* each caller's method and arguments
    document,     \* store_finance_profile's local `document`
    existing,     \* store_finance_profile's local `existing`
    stamp,        \* update_profile_insights: the utcnow() of its $set
    ret,          \* each caller's return value
    writes,       \* history: writes applied to a user's document since it was created
    deleted,      \* history: a document of the user has been deleted
    client,       \* self.client: "unset", "MongoClient", "mongomock", or "error"
    mongoUp,      \* the MongoDB server answers
    mongomock     \* the mongomock package can be imported

\* The connection: set by the constructor, read by nothing else.
connVars == <<client, mongoUp, mongomock>>

vars == <<collection, nextId, now, pc, call, document, existing, stamp, ret,
          writes, deleted, connVars>>

NoCall == [op |-> "none"]

\* ------------------------------------------------- collection operations
\* Mutant of FirstIdx: the filter is ignored, the first document matches.
FirstIdxAny(coll, u) == IF Len(coll) > 0 THEN 1 ELSE 0

\* Index of the first document matching {"user_id": u}; 0 if none.
FirstIdx(coll, u) ==
    IF \E i \in 1..Len(coll) : coll[i].user_id = u
    THEN CHOOSE i \in 1..Len(coll) :
            /\ coll[i].user_id = u
            /\ \A j \in 1..(i - 1) : coll[j].user_id # u
    ELSE 0

\* collection.find_one({"user_id": u})
FindOne(coll, u) ==
    IF FirstIdx(coll, u) = 0 THEN None ELSE coll[FirstIdx(coll, u)]

\* The stored form of a document: the document with its _id.
Stored(doc, id) ==
    [_id |-> id,
     user_id |-> doc.user_id,
     finance_profile |-> doc.finance_profile,
     additional_insights |-> doc.additional_insights,
     profile_summary |-> doc.profile_summary,
     created_at |-> doc.created_at,
     updated_at |-> doc.updated_at,
     version |-> doc.version]

\* collection.insert_one(doc), the new ObjectId being id
InsertOne(coll, doc, id) == Append(coll, Stored(doc, id))

\* Mutant of ReplaceOne: the replacement is stored under a new _id.
ReplaceOneNewId(coll, u, doc) ==
    IF FirstIdx(coll, u) = 0 THEN coll
    ELSE [coll EXCEPT ![FirstIdx(coll, u)] = Stored(doc, @._id + 1)]

\* Mutant of ReplaceOne: the replacement is inserted beside the old document.
ReplaceOneAppend(coll, u, doc) == Append(coll, Stored(doc, 0))

\* Mutant of ReplaceOne: the version is taken from the stored document, not
\* from the one the caller read.
ReplaceOneStoredVersion(coll, u, doc) ==
    IF FirstIdx(coll, u) = 0 THEN coll
    ELSE [coll EXCEPT ![FirstIdx(coll, u)] =
            Stored([doc EXCEPT !.version = coll[FirstIdx(coll, u)].version + 1],
                   @._id)]

\* collection.replace_one({"user_id": u}, doc): the first match is replaced
\* in place and keeps its _id; no match, no write (upsert is not set).
ReplaceOne(coll, u, doc) ==
    IF FirstIdx(coll, u) = 0 THEN coll
    ELSE [coll EXCEPT ![FirstIdx(coll, u)] = Stored(doc, @._id)]

\* Mutant of UpdateOne: no $inc of the version.
UpdateOneNoInc(coll, u, insights, t) ==
    IF FirstIdx(coll, u) = 0 THEN coll
    ELSE [coll EXCEPT ![FirstIdx(coll, u)] =
            [@ EXCEPT !.additional_insights = insights, !.updated_at = t]]

\* Mutant of UpdateOne: the new insights are merged into the old ones.
UpdateOneMerge(coll, u, insights, t) ==
    IF FirstIdx(coll, u) = 0 THEN coll
    ELSE [coll EXCEPT ![FirstIdx(coll, u)] =
            [@ EXCEPT !.additional_insights = Dict(@.kv \cup insights.kv),
                      !.updated_at = t,
                      !.version = @ + 1]]

\* Mutant of UpdateOne: upsert=True, a missing document is created.
UpdateOneUpsert(coll, u, insights, t) ==
    IF FirstIdx(coll, u) = 0
    THEN Append(coll,
            [_id |-> 0, user_id |-> u, finance_profile |-> None,
             additional_insights |-> insights, profile_summary |-> None,
             created_at |-> t, updated_at |-> t, version |-> 1])
    ELSE [coll EXCEPT ![FirstIdx(coll, u)] =
            [@ EXCEPT !.additional_insights = insights,
                      !.updated_at = t,
                      !.version = @ + 1]]

\* collection.update_one({"user_id": u},
\*     {"$set": {additional_insights, updated_at}, "$inc": {"version": 1}})
UpdateOne(coll, u, insights, t) ==
    IF FirstIdx(coll, u) = 0 THEN coll
    ELSE [coll EXCEPT ![FirstIdx(coll, u)] =
            [@ EXCEPT !.additional_insights = insights,
                      !.updated_at = t,
                      !.version = @ + 1]]

\* result.modified_count of that update_one
ModifiedCount(coll, u) == IF FirstIdx(coll, u) = 0 THEN 0 ELSE 1

\* Mutant of DeleteOne: a soft delete, the document stays, marked by version 0.
DeleteOneTombstone(coll, u) ==
    IF FirstIdx(coll, u) = 0 THEN coll
    ELSE [coll EXCEPT ![FirstIdx(coll, u)] = [@ EXCEPT !.version = 0]]

\* collection.delete_one({"user_id": u}): the first match is removed
DeleteOne(coll, u) ==
    IF FirstIdx(coll, u) = 0 THEN coll
    ELSE [i \in 1..(Len(coll) - 1) |->
            IF i < FirstIdx(coll, u) THEN coll[i] ELSE coll[i + 1]]

\* result.deleted_count of that delete_one
DeletedCount(coll, u) == IF FirstIdx(coll, u) = 0 THEN 0 ELSE 1

\* ---------------------------------------------------- store_finance_profile
\* The dict literal of store_finance_profile; t1 and t2 are its two
\* datetime.utcnow() values.
Document(user_id, profile_data, additional_insights, profile_summary, t1, t2) ==
    [user_id |-> user_id,
     finance_profile |-> profile_data,
     additional_insights |-> Or(additional_insights, EmptyDict),
     profile_summary |-> profile_summary,
     created_at |-> t1,
     updated_at |-> t2,
     version |-> 1]

\* Mutant of Updated: created_at is not taken from the existing document.
UpdatedFresh(doc, old) == [doc EXCEPT !.version = old.version + 1]

\* document["version"] = existing.get("version", 0) + 1
\* document["created_at"] = existing.get("created_at", ...)
Updated(doc, old) ==
    [doc EXCEPT !.version = old.version + 1, !.created_at = old.created_at]

\* Mutant of HistoryOf: every stored document is returned.
HistoryOfAll(coll, u) == List(coll)

\* get_profile_history: [current] if current else []
HistoryOf(coll, u) ==
    IF Truthy(FindOne(coll, u)) THEN List(<<FindOne(coll, u)>>) ELSE List(<<>>)

HasDoc(coll, u) == \E i \in 1..Len(coll) : coll[i].user_id = u

Init ==
    /\ collection = <<>>
    /\ nextId = 1
    /\ now = 0
    /\ pc = [p \in Procs |-> "idle"]
    /\ call = [p \in Procs |-> NoCall]
    /\ document = [p \in Procs |-> None]
    /\ existing = [p \in Procs |-> None]
    /\ stamp = [p \in Procs |-> 0]
    /\ ret = [p \in Procs |-> None]
    /\ writes = [u \in Users |-> 0]
    /\ deleted = [u \in Users |-> FALSE]
    /\ client = "MongoClient"
    /\ mongoUp = TRUE
    /\ mongomock = FALSE

\* Time passes.
Tick ==
    /\ now < MaxClock
    /\ now' = now + 1
    /\ UNCHANGED <<collection, nextId, pc, call, document, existing, stamp, ret,
                   writes, deleted, connVars>>

\* store_finance_profile is called; the dict literal reads the clock for
\* "created_at".
StoreCall(p, U) ==
    /\ pc[p] = "idle"
    /\ \E u \in U, a \in StoreArgs :
        /\ call' = [call EXCEPT ![p] =
              [op |-> "store", user_id |-> u, profile_data |-> a[1],
               additional_insights |-> a[2], profile_summary |-> a[3]]]
        /\ document' = [document EXCEPT ![p] =
              Document(u, a[1], a[2], a[3], now, now)]
    /\ pc' = [pc EXCEPT ![p] = "stamp"]
    /\ UNCHANGED <<collection, nextId, now, existing, stamp, ret, writes, deleted, connVars>>

\* ... and reads it again for "updated_at".
StoreStamp(p) ==
    /\ pc[p] = "stamp"
    /\ document' = [document EXCEPT ![p] =
          Document(call[p].user_id, call[p].profile_data,
                   call[p].additional_insights, call[p].profile_summary,
                   document[p].created_at, now)]
    /\ pc' = [pc EXCEPT ![p] = "find"]
    /\ UNCHANGED <<collection, nextId, now, call, existing, stamp, ret, writes, deleted, connVars>>

\* existing = self.collection.find_one({"user_id": user_id})
StoreFind(p) ==
    /\ pc[p] = "find"
    /\ existing' = [existing EXCEPT ![p] = FindOne(collection, call[p].user_id)]
    /\ pc' = [pc EXCEPT ![p] = "write"]
    /\ UNCHANGED <<collection, nextId, now, call, document, stamp, ret, writes, deleted, connVars>>

\* if existing: replace_one, return str(existing["_id"])
StoreReplace(p) ==
    /\ pc[p] = "write"
    /\ Truthy(existing[p])
    /\ existing[p].version < MaxVersion
    /\ LET u == call[p].user_id
           d == Updated(document[p], existing[p])
       IN /\ document' = [document EXCEPT ![p] = d]
          /\ collection' = ReplaceOne(collection, u, d)
          /\ writes' = [writes EXCEPT ![u] =
                IF HasDoc(collection, u) THEN @ + 1 ELSE @]
    /\ ret' = [ret EXCEPT ![p] = Str(existing[p]._id)]
    /\ pc' = [pc EXCEPT ![p] = "done"]
    /\ UNCHANGED <<nextId, now, call, existing, stamp, deleted, connVars>>

\* else: insert_one, return str(result.inserted_id)
StoreInsert(p) ==
    /\ pc[p] = "write"
    /\ ~Truthy(existing[p])
    /\ nextId <= MaxId
    /\ LET u == call[p].user_id
       IN /\ collection' = InsertOne(collection, document[p], nextId)
          /\ writes' = [writes EXCEPT ![u] =
                IF HasDoc(collection, u) THEN @ + 1 ELSE 0]
    /\ nextId' = nextId + 1
    /\ ret' = [ret EXCEPT ![p] = Str(nextId)]
    /\ pc' = [pc EXCEPT ![p] = "done"]
    /\ UNCHANGED <<now, call, document, existing, stamp, deleted, connVars>>

\* get_finance_profile
Get(p, U) ==
    /\ pc[p] = "idle"
    /\ \E u \in U :
        /\ call' = [call EXCEPT ![p] = [op |-> "get", user_id |-> u]]
        /\ ret' = [ret EXCEPT ![p] = FindOne(collection, u)]
    /\ pc' = [pc EXCEPT ![p] = "done"]
    /\ UNCHANGED <<collection, nextId, now, document, existing, stamp, writes, deleted, connVars>>

\* update_profile_insights is called; the update document reads the clock.
PatchCall(p, U) ==
    /\ pc[p] = "idle"
    /\ \E u \in U, n \in PatchArgs :
        call' = [call EXCEPT ![p] =
            [op |-> "patch", user_id |-> u, new_insights |-> n]]
    /\ stamp' = [stamp EXCEPT ![p] = now]
    /\ pc' = [pc EXCEPT ![p] = "update"]
    /\ UNCHANGED <<collection, nextId, now, document, existing, ret, writes, deleted, connVars>>

\* update_one; return result.modified_count > 0
PatchUpdate(p) ==
    /\ pc[p] = "update"
    /\ LET u == call[p].user_id
       IN /\ HasDoc(collection, u) => FindOne(collection, u).version < MaxVersion
          /\ collection' = UpdateOne(collection, u, call[p].new_insights, stamp[p])
          /\ ret' = [ret EXCEPT ![p] = Bool(ModifiedCount(collection, u) > 0)]
          /\ writes' = [writes EXCEPT ![u] = @ + ModifiedCount(collection, u)]
    /\ pc' = [pc EXCEPT ![p] = "done"]
    /\ UNCHANGED <<nextId, now, call, document, existing, stamp, deleted, connVars>>

\* delete_profile
Delete(p, U) ==
    /\ pc[p] = "idle"
    /\ \E u \in U :
        /\ call' = [call EXCEPT ![p] = [op |-> "delete", user_id |-> u]]
        /\ collection' = DeleteOne(collection, u)
        /\ ret' = [ret EXCEPT ![p] = Bool(DeletedCount(collection, u) > 0)]
        /\ writes' = [writes EXCEPT ![u] =
              IF HasDoc(DeleteOne(collection, u), u) THEN @ ELSE 0]
        /\ deleted' = [deleted EXCEPT ![u] = @ \/ HasDoc(collection, u)]
    /\ pc' = [pc EXCEPT ![p] = "done"]
    /\ UNCHANGED <<nextId, now, document, existing, stamp, connVars>>

\* get_profile_history
History(p, U) ==
    /\ pc[p] = "idle"
    /\ \E u \in U, limit \in Limits :
        /\ call' = [call EXCEPT ![p] =
              [op |-> "history", user_id |-> u, limit |-> limit]]
        /\ ret' = [ret EXCEPT ![p] = HistoryOf(collection, u)]
    /\ pc' = [pc EXCEPT ![p] = "done"]
    /\ UNCHANGED <<collection, nextId, now, document, existing, stamp, writes, deleted, connVars>>

\* The method returns to its caller.
Return(p) ==
    /\ pc[p] = "done"
    /\ pc' = [pc EXCEPT ![p] = "idle"]
    /\ call' = [call EXCEPT ![p] = NoCall]
    /\ document' = [document EXCEPT ![p] = None]
    /\ existing' = [existing EXCEPT ![p] = None]
    /\ stamp' = [stamp EXCEPT ![p] = 0]
    /\ ret' = [ret EXCEPT ![p] = None]
    /\ UNCHANGED <<collection, nextId, now, writes, deleted, connVars>>

\* The steps of the methods that write the collection.
WriteStep(p, U) ==
    \/ StoreCall(p, U)
    \/ StoreStamp(p)
    \/ StoreFind(p)
    \/ StoreReplace(p)
    \/ StoreInsert(p)
    \/ PatchCall(p, U)
    \/ PatchUpdate(p)
    \/ Delete(p, U)
    \/ Return(p)

\* The methods that only read it.
ReadStep(p, U) ==
    \/ Get(p, U)
    \/ History(p, U)

\* Concurrent callers race on one user_id, their calls interleaving between
\* the steps, all within one reading of the clock.  The reading methods are
\* single find_one calls that change nothing a writer reads, and are left
\* to SpecSerial, as is the passing of time.
Next == \E p \in Procs : WriteStep(p, RaceUsers)

Spec == Init /\ [][Next]_vars

\* Calls are serialized: one caller, each call returning before the next.
NextSerial == Tick \/ WriteStep(1, Users) \/ ReadStep(1, Users)

SpecSerial == Init /\ [][NextSerial]_vars

\* ------------------------------------------------------------ the connection
\* _connect with a fallback whether or not mongomock can be imported.
ConnectResultAlwaysFallback(up, importable) ==
    IF up THEN "MongoClient" ELSE "mongomock"

\* _connect: the client the constructor ends with.  The ping succeeds and
\* the MongoClient stays; or it raises and mongomock, if it can be imported,
\* takes its place; or the ImportError becomes the constructor's exception.
ConnectResult(up, importable) ==
    IF up THEN "MongoClient"
    ELSE IF importable THEN "mongomock"
    ELSE "error"

\* What a pymongo collection call raises when no server answers; the store's
\* methods catch nothing, so it is what their caller gets.
Raised == [t |-> "raise", exc |-> "ServerSelectionTimeoutError"]

\* The store object exists: the constructor returned.
Constructed == client \in {"MongoClient", "mongomock"}

\* A collection call of this client is answered.
Answers == client = "mongomock" \/ (client = "MongoClient" /\ mongoUp)

\* Before the module-level constructor has run.
InitConnect ==
    /\ collection = <<>>
    /\ nextId = 1
    /\ now = 0
    /\ pc = [p \in Procs |-> "idle"]
    /\ call = [p \in Procs |-> NoCall]
    /\ document = [p \in Procs |-> None]
    /\ existing = [p \in Procs |-> None]
    /\ stamp = [p \in Procs |-> 0]
    /\ ret = [p \in Procs |-> None]
    /\ writes = [u \in Users |-> 0]
    /\ deleted = [u \in Users |-> FALSE]
    /\ client = "unset"
    /\ mongoUp \in BOOLEAN
    /\ mongomock \in BOOLEAN

\* finance_memory = FinanceMemoryManager(): __init__ calls _connect, once.
Connect ==
    /\ client = "unset"
    /\ client' = ConnectResult(mongoUp, mongomock)
    /\ UNCHANGED <<collection, nextId, now, pc, call, document, existing, stamp,
                   ret, writes, deleted, mongoUp, mongomock>>

\* The MongoDB server stops or starts answering.
Outage ==
    /\ mongoUp' = ~mongoUp
    /\ UNCHANGED <<collection, nextId, now, pc, call, document, existing, stamp,
                   ret, writes, deleted, client, mongomock>>

\* The steps of a method that touch no collection.
LocalStep(p, U) ==
    /\ Constructed
    /\ \/ StoreCall(p, U)
       \/ StoreStamp(p)
       \/ PatchCall(p, U)
       \/ Return(p)

\* The collection calls, answered by the client the constructor left.
DbStep(p, U) ==
    /\ Answers
    /\ \/ StoreFind(p)
       \/ StoreReplace(p)
       \/ StoreInsert(p)
       \/ PatchUpdate(p)
       \/ Delete(p, U)
       \/ Get(p, U)
       \/ History(p, U)

\* A collection call inside store_finance_profile or update_profile_insights
\* finds no server: the exception leaves the method.
RaiseStep(p) ==
    /\ Constructed /\ ~Answers
    /\ pc[p] \in {"find", "write", "update"}
    /\ pc' = [pc EXCEPT ![p] = "done"]
    /\ ret' = [ret EXCEPT ![p] = Raised]
    /\ UNCHANGED <<collection, nextId, now, call, document, existing, stamp,
                   writes, deleted, connVars>>

\* The single collection call of get_finance_profile, delete_profile or
\* get_profile_history finds no server.
RaiseCall(p, U) ==
    /\ Constructed /\ ~Answers
    /\ pc[p] = "idle"
    /\ \E u \in U, op \in {"get", "delete", "history"} :
        call' = [call EXCEPT ![p] = [op |-> op, user_id |-> u]]
    /\ pc' = [pc EXCEPT ![p] = "done"]
    /\ ret' = [ret EXCEPT ![p] = Raised]
    /\ UNCHANGED <<collection, nextId, now, document, existing, stamp,
                   writes, deleted, connVars>>

\* One caller uses the store the module constructs while the server comes
\* and goes.
NextConnect ==
    \/ Connect
    \/ Outage
    \/ LocalStep(1, RaceUsers)
    \/ DbStep(1, RaceUsers)
    \/ RaiseStep(1)
    \/ RaiseCall(1, RaceUsers)

SpecConnect == InitConnect /\ [][NextConnect]_vars

\* ------------------------------------------------------- provider output
\* A text is the sequence of its characters.
Whitespace == {" ", "\n", "\t", "\r"}

RECURSIVE LStrip(_)
LStrip(s) ==
    IF s # <<>> /\ Head(s) \in Whitespace THEN LStrip(Tail(s)) ELSE s

RECURSIVE RStrip(_)
RStrip(s) ==
    IF s # <<>> /\ s[Len(s)] \in Whitespace
    THEN RStrip(SubSeq(s, 1, Len(s) - 1))
    ELSE s

\* str.strip()
Strip(s) == RStrip(LStrip(s))

\* str.startswith, str.endswith
StartsWith(s, prefix) ==
    Len(s) >= Len(prefix) /\ SubSeq(s, 1, Len(prefix)) = prefix

EndsWith(s, suffix) ==
    Len(s) >= Len(suffix) /\ SubSeq(s, Len(s) - Len(suffix) + 1, Len(s)) = suffix

\* s[n:] and s[:-n]
DropFirst(s, n) == SubSeq(s, n + 1, Len(s))
DropLast(s, n) == SubSeq(s, 1, Len(s) - n)

\* The character U+0060, which a string of this language cannot hold.
Backquote == "U+0060"

\* The opening fence, three U+0060 and json, and the closing one.
Fence ==
    <<Backquote, Backquote, Backquote, "j", "s", "o", "n">>

FenceEnd ==
    <<Backquote, Backquote, Backquote>>

\* {"a":1}
TextA ==
    <<"{", "\"", "a", "\"", ":", "1", "}">>

\* { "a" : 1 }
TextASpaced ==
    <<"{", " ", "\"", "a", "\"", " ", ":", " ", "1", " ", "}">>

\* {}
TextEmpty ==
    <<"{", "}">>

\* {"FinanceProfile":{},"profile_summary":"s"}
TextProfile ==
    <<"{", "\"", "F", "i", "n", "a", "n", "c", "e", "P", "r", "o", "f", "i",
      "l", "e", "\"", ":", "{", "}", ",", "\"", "p", "r", "o", "f", "i", "l",
      "e", "_", "s", "u", "m", "m", "a", "r", "y", "\"", ":", "\"", "s", "\"",
      "}">>

\* {"FinanceProfile":{}}
TextNoSummary ==
    <<"{", "\"", "F", "i", "n", "a", "n", "c", "e", "P", "r", "o", "f", "i",
      "l", "e", "\"", ":", "{", "}", "}">>

\* {"FinanceProfile":{"user_age_years":34},"profile_summary":"s"}
RespOk ==
    <<"{", "\"", "F", "i", "n", "a", "n", "c", "e", "P", "r", "o", "f", "i",
      "l", "e", "\"", ":", "{", "\"", "u", "s", "e", "r", "_", "a", "g", "e",
      "_", "y", "e", "a", "r", "s", "\"", ":", "3", "4", "}", ",", "\"", "p",
      "r", "o", "f", "i", "l", "e", "_", "s", "u", "m", "m", "a", "r", "y",
      "\"", ":", "\"", "s", "\"", "}">>

\* {"FinanceProfile":{"user_age_years":"34","income_monthly_take_home":"1500"},"profile_summary":"s","additional_insights":{"k":1}}
RespCoerced ==
    <<"{", "\"", "F", "i", "n", "a", "n", "c", "e", "P", "r", "o", "f", "i",
      "l", "e", "\"", ":", "{", "\"", "u", "s", "e", "r", "_", "a", "g", "e",
      "_", "y", "e", "a", "r", "s", "\"", ":", "\"", "3", "4", "\"", ",",
      "\"", "i", "n", "c", "o", "m", "e", "_", "m", "o", "n", "t", "h", "l",
      "y", "_", "t", "a", "k", "e", "_", "h", "o", "m", "e", "\"", ":", "\"",
      "1", "5", "0", "0", "\"", "}", ",", "\"", "p", "r", "o", "f", "i", "l",
      "e", "_", "s", "u", "m", "m", "a", "r", "y", "\"", ":", "\"", "s", "\"",
      ",", "\"", "a", "d", "d", "i", "t", "i", "o", "n", "a", "l", "_", "i",
      "n", "s", "i", "g", "h", "t", "s", "\"", ":", "{", "\"", "k", "\"", ":",
      "1", "}", "}">>

\* {"FinanceProfile":{"user_age_years":"x"},"profile_summary":"s"}
RespRaw ==
    <<"{", "\"", "F", "i", "n", "a", "n", "c", "e", "P", "r", "o", "f", "i",
      "l", "e", "\"", ":", "{", "\"", "u", "s", "e", "r", "_", "a", "g", "e",
      "_", "y", "e", "a", "r", "s", "\"", ":", "\"", "x", "\"", "}", ",",
      "\"", "p", "r", "o", "f", "i", "l", "e", "_", "s", "u", "m", "m", "a",
      "r", "y", "\"", ":", "\"", "s", "\"", "}">>

\* oops
RespNotJson ==
    <<"o", "o", "p", "s">>

\* A JSON number.
Num(n) == [t |-> "int", v |-> n]

\* The JSON texts of the model with the values json.loads gives them.
JsonDocs ==
    { [text |-> TextA, value |-> Dict({<<"a", Num(1)>>})],
      [text |-> TextASpaced, value |-> Dict({<<"a", Num(1)>>})],
      [text |-> TextEmpty, value |-> EmptyDict],
      [text |-> TextProfile,
       value |-> Dict({<<"FinanceProfile", EmptyDict>>,
                       <<"profile_summary", Str("s")>>})],
      [text |-> TextNoSummary,
       value |-> Dict({<<"FinanceProfile", EmptyDict>>})],
      [text |-> RespOk,
       value |-> Dict({<<"FinanceProfile",
                         Dict({<<"user_age_years", Num(34)>>})>>,
                       <<"profile_summary", Str("s")>>})],
      [text |-> RespCoerced,
       value |-> Dict({<<"FinanceProfile",
                         Dict({<<"user_age_years", Str("34")>>,
                               <<"income_monthly_take_home", Str("1500")>>})>>,
                       <<"profile_summary", Str("s")>>,
                       <<"additional_insights", Dict({<<"k", Num(1)>>})>>})],
      [text |-> RespRaw,
       value |-> Dict({<<"FinanceProfile",
                         Dict({<<"user_age_years", Str("x")>>})>>,
                       <<"profile_summary", Str("s")>>})] }

JSONDecodeError == [t |-> "raise", exc |-> "JSONDecodeError", msg |-> ""]

ValueError(msg) == [t |-> "raise", exc |-> "ValueError", msg |-> msg]

IsRaise(v) == v.t = "raise"

\* json.loads: the value of a JSON text, JSONDecodeError for any other text.
Loads(text) ==
    IF \E e \in JsonDocs : e.text = text
    THEN (CHOOSE e \in JsonDocs : e.text = text).value
    ELSE JSONDecodeError

\* The fence stripping of _parse_llm_json with the opening cut as long as
\* the closing one.
CleanLlmShortCut(text) ==
    LET a == Strip(text)
        b == IF StartsWith(a, Fence) THEN DropFirst(a, 3) ELSE a
        c == IF EndsWith(b, FenceEnd) THEN DropLast(b, 3) ELSE b
    IN Strip(c)

\* _parse_llm_json, up to json.loads.
CleanLlm(text) ==
    LET a == Strip(text)
        b == IF StartsWith(a, Fence) THEN DropFirst(a, 7) ELSE a
        c == IF EndsWith(b, FenceEnd) THEN DropLast(b, 3) ELSE b
    IN Strip(c)

\* _parse_llm_json
ParseLlmJson(text) == Loads(CleanLlm(text))

\* _parse_slm_response, up to json.loads.
CleanSlm(response_text) ==
    LET a == Strip(response_text)
        b == IF StartsWith(a, Fence) THEN DropFirst(a, 7) ELSE a
        c == IF EndsWith(b, FenceEnd) THEN DropLast(b, 3) ELSE b
    IN Strip(c)

\* key in parsed_response
HasKey(d, key) == \E kv \in d.kv : kv[1] = key

\* parsed_response[key]
Item(d, key) == (CHOOSE kv \in d.kv : kv[1] = key)[2]

\* _parse_slm_response without the check of the second required key.
ParseSlmResponseOneKey(response_text) ==
    LET parsed_response == Loads(CleanSlm(response_text))
    IN IF parsed_response = JSONDecodeError
       THEN ValueError("Invalid JSON response from SLM")
       ELSE IF ~HasKey(parsed_response, "FinanceProfile")
       THEN ValueError("Failed to parse SLM response: Missing required key: FinanceProfile")
       ELSE parsed_response

\* _parse_slm_response: the parsed mapping, or ValueError for a text that is
\* not JSON or a mapping that lacks a required key.
ParseSlmResponse(response_text) ==
    LET parsed_response == Loads(CleanSlm(response_text))
    IN IF parsed_response = JSONDecodeError
       THEN ValueError("Invalid JSON response from SLM")
       ELSE IF ~HasKey(parsed_response, "FinanceProfile")
       THEN ValueError("Failed to parse SLM response: Missing required key: FinanceProfile")
       ELSE IF ~HasKey(parsed_response, "profile_summary")
       THEN ValueError("Failed to parse SLM response: Missing required key: profile_summary")
       ELSE parsed_response

\* Whitespace a provider puts around its output and inside the fence.
Outer == {<<>>, <<" ">>, <<"\n">>, <<"\n", " ">>}
Inner == {<<>>, <<"\n">>}

\* The outputs of the provider: a JSON text (payload), bare or in a fence.
Outputs ==
    { [text |-> lead \o e.text \o trail, payload |-> e.text, fenced |-> FALSE] :
        lead \in Outer, trail \in Outer, e \in JsonDocs }
    \cup
    { [text |-> w[1] \o Fence \o w[2] \o e.text \o w[3] \o FenceEnd \o w[4],
       payload |-> e.text, fenced |-> TRUE] :
        w \in Outer \X Inner \X Inner \X Outer, e \in JsonDocs }

\* _parse_llm_json(text) is called on a provider output and returns or raises.
LlmJson(p) ==
    /\ pc[p] = "idle"
    /\ \E o \in Outputs :
        /\ call' = [call EXCEPT ![p] =
              [op |-> "_parse_llm_json", text |-> o.text,
               payload |-> o.payload, fenced |-> o.fenced]]
        /\ ret' = [ret EXCEPT ![p] = ParseLlmJson(o.text)]
    /\ pc' = [pc EXCEPT ![p] = "done"]
    /\ UNCHANGED <<collection, nextId, now, document, existing, stamp, writes,
                   deleted, connVars>>

\* _parse_slm_response(response_text) likewise.
SlmResponse(p) ==
    /\ pc[p] = "idle"
    /\ \E o \in Outputs :
        /\ call' = [call EXCEPT ![p] =
              [op |-> "_parse_slm_response", text |-> o.text,
               payload |-> o.payload, fenced |-> o.fenced]]
        /\ ret' = [ret EXCEPT ![p] = ParseSlmResponse(o.text)]
    /\ pc' = [pc EXCEPT ![p] = "done"]
    /\ UNCHANGED <<collection, nextId, now, document, existing, stamp, writes,
                   deleted, connVars>>

\* The two parsers on the provider's outputs.
NextJson == LlmJson(1) \/ SlmResponse(2) \/ Return(1) \/ Return(2)

SpecJson == Init /\ [][NextJson]_vars

\* ------------------------------------------------- analyze_user_finances
\* Decimal and float values.
Dec(n) == [t |-> "Decimal", v |-> n]
Float(n) == [t |-> "float", v |-> n]

\* What a field cannot be coerced to.
Invalid == [t |-> "invalid"]

\* The strings that read as numbers.
Numeric == {[s |-> "34", n |-> 34], [s |-> "1500", n |-> 1500]}

IsNumeric(v) == v.t = "str" /\ \E e \in Numeric : e.s = v.s

NumberOf(v) == (CHOOSE e \in Numeric : e.s = v.s).n

\* Optional[int]: null, an int, or a string that reads as one.
CoerceInt(v) ==
    IF v = None THEN None
    ELSE IF v.t = "int" THEN v
    ELSE IF IsNumeric(v) THEN Num(NumberOf(v))
    ELSE Invalid

\* Optional[Decimal]: null, an int, or a string that reads as a number.
CoerceDecimal(v) ==
    IF v = None THEN None
    ELSE IF v.t = "int" THEN Dec(v.v)
    ELSE IF IsNumeric(v) THEN Dec(NumberOf(v))
    ELSE Invalid

\* A keyword argument of FinanceProfile(**data); the default is None.
Field(data, key) == IF HasKey(data, key) THEN Item(data, key) ELSE None

\* FinanceProfile(**finance_profile_data).model_dump(), with two of the
\* schema's fields: every field of the schema, coerced, None when not given;
\* keys the schema does not have are dropped; Invalid when the data is no
\* mapping or a field cannot be coerced.
ModelDump(data) ==
    IF data.t # "dict" THEN Invalid
    ELSE LET age == CoerceInt(Field(data, "user_age_years"))
             income == CoerceDecimal(Field(data, "income_monthly_take_home"))
         IN IF age = Invalid \/ income = Invalid THEN Invalid
            ELSE Dict({<<"user_age_years", age>>,
                       <<"income_monthly_take_home", income>>})

\* The validation with nothing to fall back on: what cannot be coerced is
\* stored as an empty profile.
ValidatedProfileDataOrEmpty(data) ==
    IF ModelDump(data) = Invalid THEN EmptyDict ELSE ModelDump(data)

\* try: validated_profile_data = FinanceProfile(**data).model_dump()
\* except Exception: validated_profile_data = finance_profile_data
ValidatedProfileData(data) ==
    IF ModelDump(data) = Invalid THEN data ELSE ModelDump(data)

\* convert_decimals_to_float, on a scalar and on a mapping of scalars.
DecimalToFloat(v) == IF v.t = "Decimal" THEN Float(v.v) ELSE v

ConvertDecimalsToFloat(obj) ==
    IF obj.t = "dict"
    THEN Dict({<<kv[1], DecimalToFloat(kv[2])>> : kv \in obj.kv})
    ELSE DecimalToFloat(obj)

\* parsed_response.get(key, default)
GetOr(d, key, default) == IF HasKey(d, key) THEN Item(d, key) ELSE default

\* The provider outputs of the analysis: the JSON texts, bare and fenced,
\* and a text that is not JSON.
Responses ==
    {e.text : e \in JsonDocs}
    \cup {Fence \o <<"\n">> \o e.text \o <<"\n">> \o FenceEnd : e \in JsonDocs}
    \cup {RespNotJson}

\* The result of a failed analysis and of a successful one.
Failed(user_id, error) ==
    [user_id |-> user_id, error |-> error, analysis_status |-> "failed"]

Success(user_id, doc_id, profile, insights, summary) ==
    [user_id |-> user_id, document_id |-> doc_id, finance_profile |-> profile,
     additional_insights |-> insights, profile_summary |-> summary,
     analysis_status |-> "success"]

\* analyze_user_finances: the provider output does not parse; the ValueError
\* is caught by the outer except and becomes the result.
AnalyzeFail(p, U) ==
    /\ pc[p] = "idle"
    /\ \E u \in U, r \in Responses :
        /\ IsRaise(ParseSlmResponse(r))
        /\ call' = [call EXCEPT ![p] =
              [op |-> "analyze", user_id |-> u, response |-> r]]
        /\ ret' = [ret EXCEPT ![p] = Failed(u, ParseSlmResponse(r).msg)]
    /\ pc' = [pc EXCEPT ![p] = "done"]
    /\ UNCHANGED <<collection, nextId, now, document, existing, stamp, writes,
                   deleted, connVars>>

\* analyze_user_finances: the output parses; the profile is validated or
\* taken raw, and store_finance_profile is called with it.
AnalyzeStore(p, U) ==
    /\ pc[p] = "idle"
    /\ \E u \in U, r \in Responses :
        /\ ~IsRaise(ParseSlmResponse(r))
        /\ LET parsed_response == ParseSlmResponse(r)
               finance_profile_data == Item(parsed_response, "FinanceProfile")
               validated_profile_data ==
                   ConvertDecimalsToFloat(ValidatedProfileData(finance_profile_data))
               additional_insights ==
                   ConvertDecimalsToFloat(
                       GetOr(parsed_response, "additional_insights", EmptyDict))
               profile_summary == GetOr(parsed_response, "profile_summary", Str(""))
           IN /\ call' = [call EXCEPT ![p] =
                    [op |-> "store", user_id |-> u,
                     profile_data |-> validated_profile_data,
                     additional_insights |-> additional_insights,
                     profile_summary |-> profile_summary,
                     response |-> r]]
              /\ document' = [document EXCEPT ![p] =
                    Document(u, validated_profile_data, additional_insights,
                             profile_summary, now, now)]
    /\ pc' = [pc EXCEPT ![p] = "stamp"]
    /\ UNCHANGED <<collection, nextId, now, existing, stamp, ret, writes,
                   deleted, connVars>>

\* store_finance_profile has returned the document id: the success result.
AnalyzeReturn(p) ==
    /\ pc[p] = "done"
    /\ call[p].op = "store"
    /\ call' = [call EXCEPT ![p] =
          [op |-> "analyze", user_id |-> call[p].user_id,
           response |-> call[p].response]]
    /\ ret' = [ret EXCEPT ![p] =
          Success(call[p].user_id, ret[p], call[p].profile_data,
                  call[p].additional_insights, call[p].profile_summary)]
    /\ UNCHANGED <<collection, nextId, now, pc, document, existing, stamp,
                   writes, deleted, connVars>>

\* analyze_user_finances returns to the handler.
AnalyzeEnd(p) ==
    /\ call[p].op = "analyze"
    /\ Return(p)

\* One handler after the other runs the analysis.
NextAnalyze ==
    \/ AnalyzeFail(1, Users)
    \/ AnalyzeStore(1, Users)
    \/ StoreStamp(1)
    \/ StoreFind(1)
    \/ StoreReplace(1)
    \/ StoreInsert(1)
    \/ AnalyzeReturn(1)
    \/ AnalyzeEnd(1)

SpecAnalyze == Init /\ [][NextAnalyze]_vars

\* ----------------------------------------------------------- _remove_nulls
\* isinstance(v, (dict, list)) and len(v) == 0, for dicts only.
IsEmptyDictOnly(v) == v.t = "dict" /\ v.kv = {}

\* isinstance(v, (dict, list)) and len(v) == 0
IsEmptyContainer(v) ==
    \/ v.t = "dict" /\ v.kv = {}
    \/ v.t = "list" /\ v.items = <<>>

RECURSIVE RemoveNulls(_)
\* _remove_nulls
RemoveNulls(obj) ==
    IF obj.t = "dict"
    THEN LET cleaned == {<<kv[1], RemoveNulls(kv[2])>> :
                            kv \in {x \in obj.kv : x[2] # None}}
         IN Dict({kv \in cleaned : ~IsEmptyContainer(kv[2])})
    ELSE IF obj.t = "list"
    THEN LET Keep(v) == v # None /\ ~IsEmptyContainer(RemoveNulls(v))
             kept == SelectSeq(obj.items, Keep)
         IN List([i \in 1..Len(kept) |-> RemoveNulls(kept[i])])
    ELSE obj

\* The values: scalars, and mappings and sequences of values, nested.
Scalars == {None, Num(0), Bool(FALSE), Str("")}
DeepScalars == {None, Num(0)}
KeySet == {"a", "b"}

ListsOver(S) == {List(items) : items \in UNION {[1..k -> S] : k \in 0..MaxLen}}

DictsOver(S) ==
    UNION {{Dict({<<k, f[k]>> : k \in D}) : f \in [D -> S]} : D \in SUBSET KeySet}

Nested == ListsOver(DeepScalars) \cup DictsOver(DeepScalars)

Containers == ListsOver(Scalars \cup Nested) \cup DictsOver(Scalars \cup Nested)

Wrapped ==
    {List(<<v>>) : v \in DictsOver(Scalars \cup Nested)}
    \cup {Dict({<<"a", v>>}) : v \in DictsOver(Scalars \cup Nested)}

\* The arguments of _remove_nulls.
Objects == Scalars \cup Containers \cup Wrapped

\* _remove_nulls(obj) is called and returns.
RemoveNullsCall(p) ==
    /\ pc[p] = "idle"
    /\ \E obj \in Objects :
        /\ call' = [call EXCEPT ![p] =
              [op |-> "_remove_nulls", obj |-> obj, again |-> FALSE]]
        /\ ret' = [ret EXCEPT ![p] = RemoveNulls(obj)]
    /\ pc' = [pc EXCEPT ![p] = "done"]
    /\ UNCHANGED <<collection, nextId, now, document, existing, stamp, writes,
                   deleted, connVars>>

\* _remove_nulls is called on what it returned.
RemoveNullsAgain(p) ==
    /\ pc[p] = "done"
    /\ call[p].op = "_remove_nulls"
    /\ ~call[p].again
    /\ call' = [call EXCEPT ![p] =
          [op |-> "_remove_nulls", obj |-> ret[p], again |-> TRUE]]
    /\ ret' = [ret EXCEPT ![p] = RemoveNulls(ret[p])]
    /\ UNCHANGED <<collection, nextId, now, pc, document, existing, stamp,
                   writes, deleted, connVars>>

NextNulls == RemoveNullsCall(1) \/ RemoveNullsAgain(1) \/ Return(1)

SpecNulls == Init /\ [][NextNulls]_vars

\* ------------------------------------------------------------ properties
\* The documents of user u, as indices into the collection.
DocsOf(coll, u) == {i \in 1..Len(coll) : coll[i].user_id = u}

\* Caller p has returned from store_finance_profile (and holds its result).
StoreDone(p) == pc[p] = "done" /\ call[p].op = "store"

\* additional_insights as stored for an argument: None becomes {}.
InsightsFor(a) == IF a = None THEN EmptyDict ELSE a

\* C1: for a user_id with no stored document, store_finance_profile creates
\* exactly one document for it, with version 1 and created_at = updated_at.
C1_FirstStoreCreatesVersionOne ==
    \A p \in Procs :
        (StoreDone(p) /\ existing[p] = None) =>
            LET u == call[p].user_id
                d == FindOne(collection, u)
            IN /\ Cardinality(DocsOf(collection, u)) = 1
               /\ d.version = 1
               /\ d.created_at = d.updated_at

\* C2: a store_finance_profile for a user_id that has a document leaves the
\* document with the previous version + 1, the same user_id and created_at,
\* updated_at read during the call and not before the previous updated_at,
\* and a body that is exactly the call's arguments (None insights as {}).
C2_StoreReplacesBody ==
    \A p \in Procs :
        (StoreDone(p) /\ existing[p] # None) =>
            LET u == call[p].user_id
                d == FindOne(collection, u)
                e == existing[p]
            IN /\ d # None
               /\ d.version = e.version + 1
               /\ d.user_id = e.user_id
               /\ d.user_id = u
               /\ d.created_at = e.created_at
               /\ d.updated_at >= e.updated_at
               /\ d.updated_at <= now
               /\ d.updated_at = document[p].updated_at
               /\ d.finance_profile = call[p].profile_data
               /\ d.additional_insights = InsightsFor(call[p].additional_insights)
               /\ d.profile_summary = call[p].profile_summary

\* C2's case: a document stored with insights and a summary has been replaced,
\* later on the clock, by a call that omits both.
C2_Witness ==
    \E p \in Procs :
        /\ StoreDone(p)
        /\ existing[p] # None
        /\ existing[p].additional_insights # EmptyDict
        /\ existing[p].profile_summary # None
        /\ call[p].additional_insights = None
        /\ call[p].profile_summary = None
        /\ FindOne(collection, call[p].user_id).updated_at > existing[p].created_at

\* C3: while a user has a document, no step changes its _id, and every
\* store_finance_profile returns the _id of the user's stored document.
C3_IdentityStable ==
    [][ /\ \A u \in Users :
            (HasDoc(collection, u) /\ HasDoc(collection', u)) =>
                FindOne(collection', u)._id = FindOne(collection, u)._id
        /\ \A p \in Procs :
            (pc[p] = "write" /\ pc'[p] = "done") =>
                /\ HasDoc(collection', call[p].user_id)
                /\ ret'[p] = Str(FindOne(collection', call[p].user_id)._id)
                /\ Truthy(existing[p]) => ret'[p] = Str(existing[p]._id)
      ]_vars

\* C3's case: a third write of a document has returned the _id the document
\* still has.
C3_Witness ==
    \E p \in Procs :
        /\ StoreDone(p)
        /\ existing[p] # None
        /\ existing[p].version = 2
        /\ ret[p] = Str(FindOne(collection, call[p].user_id)._id)

\* C4: under serialized calls the version of a user's document is 1 plus the
\* number of writes applied to it since it was created, and at least 1.
C4_VersionCountsWrites ==
    \A i \in 1..Len(collection) :
        /\ collection[i].version = 1 + writes[collection[i].user_id]
        /\ collection[i].version >= 1

\* C4's case: a document has been written twice since it was created, once
\* by a patch and once by a replace.
C4_Witness ==
    \E p \in Procs :
        /\ StoreDone(p)
        /\ existing[p] # None
        /\ existing[p].additional_insights = Dict({<<"c", 3>>})
        /\ writes[call[p].user_id] = 2
        /\ FindOne(collection, call[p].user_id).version = 3

\* Caller p takes the step that runs a whole single-call method.
Calls(p, op) == pc[p] = "idle" /\ pc'[p] = "done" /\ call'[p].op = op

\* Caller p takes the update_one step of update_profile_insights.
Patches(p) == pc[p] = "update" /\ pc'[p] = "done"

\* Caller p takes the replace_one or insert_one step of store_finance_profile.
Writes(p) == pc[p] = "write" /\ pc'[p] = "done"

C6_NotFound ==
    [][ \A p \in Procs :
          /\ (Calls(p, "get") /\ ~HasDoc(collection, call'[p].user_id)) =>
                (ret'[p] = None /\ collection' = collection)
          /\ (Calls(p, "delete") /\ ~HasDoc(collection, call'[p].user_id)) =>
                (ret'[p] = Bool(FALSE) /\ collection' = collection)
          /\ (Patches(p) /\ ~HasDoc(collection, call[p].user_id)) =>
                (ret'[p] = Bool(FALSE) /\ collection' = collection)
      ]_vars

\* C6's case: a patch of a user_id without a document has returned, another
\* user's document being in the collection.
C6_Witness ==
    \E p \in Procs :
        /\ pc[p] = "done"
        /\ call[p].op = "patch"
        /\ ret[p] = Bool(FALSE)
        /\ ~HasDoc(collection, call[p].user_id)
        /\ Len(collection) = 1

\* C7: delete_profile on a user_id that has a document returns True and
\* leaves nothing of it: get finds nothing, the history is empty, another
\* delete would delete nothing; and a store for a user_id whose document was
\* deleted creates a document with version 1.
C7_DeleteRemoves ==
    [][ \A p \in Procs :
          /\ (Calls(p, "delete") /\ HasDoc(collection, call'[p].user_id)) =>
                LET u == call'[p].user_id
                IN /\ ret'[p] = Bool(TRUE)
                   /\ DocsOf(collection', u) = {}
                   /\ FindOne(collection', u) = None
                   /\ HistoryOf(collection', u) = List(<<>>)
                   /\ DeletedCount(collection', u) = 0
          /\ (Writes(p) /\ deleted[call[p].user_id]
                /\ ~HasDoc(collection, call[p].user_id)) =>
                LET u == call[p].user_id
                IN /\ HasDoc(collection', u)
                   /\ FindOne(collection', u).version = 1
                   /\ writes'[u] = 0
      ]_vars

\* C7's case: a store has created a document for a user_id whose earlier
\* document was deleted.
C7_Witness ==
    \E p \in Procs :
        /\ StoreDone(p)
        /\ existing[p] = None
        /\ deleted[call[p].user_id]
        /\ FindOne(collection, call[p].user_id) # None
        /\ FindOne(collection, call[p].user_id).version = 1

\* C8: under serialized calls the collection holds at most one document per
\* user_id.
C8_AtMostOnePerUser ==
    \A u \in Users : Cardinality(DocsOf(collection, u)) <= 1

\* C8's case: a document has been replaced while another user's document is
\* stored.
C8_Witness ==
    /\ Len(collection) = 2
    /\ \E p \in Procs : StoreDone(p) /\ existing[p] # None

\* C9: a store_finance_profile that returns a document id has left the
\* document it was given stored under that id and user_id, with version 1
\* or the version it read + 1, whatever ran between its lookup and its write.
C9_AcceptedStorePersists ==
    [][ \A p \in Procs :
            Writes(p) =>
                \E i \in 1..Len(collection') :
                    LET d == collection'[i]
                    IN /\ d.user_id = call[p].user_id
                       /\ Str(d._id) = ret'[p]
                       /\ d.finance_profile = call[p].profile_data
                       /\ d.additional_insights
                            = InsightsFor(call[p].additional_insights)
                       /\ d.profile_summary = call[p].profile_summary
                       /\ d.version = IF Truthy(existing[p])
                                      THEN existing[p].version + 1 ELSE 1
      ]_vars

\* C10: when two store_finance_profile calls for one user_id both look up
\* before either writes (they hold the same `existing`), then once the
\* second has written the collection holds one document for the user_id,
\* with the second writer's body.
C10_SecondWriteWins ==
    [][ \A p \in Procs : \A q \in Procs \ {p} :
            ( /\ Writes(p)
              /\ StoreDone(q)
              /\ call[q].user_id = call[p].user_id
              /\ existing[q] = existing[p] ) =>
                LET u == call[p].user_id
                    d == FindOne(collection', u)
                IN /\ Cardinality(DocsOf(collection', u)) = 1
                   /\ d.finance_profile = call[p].profile_data
                   /\ d.additional_insights
                        = InsightsFor(call[p].additional_insights)
                   /\ d.profile_summary = call[p].profile_summary
      ]_vars

\* C11: the lost update is reached: when two store_finance_profile calls for
\* one user_id have both read the same document, of version v, and the
\* first one's write (version v + 1) is what is stored, the second one's
\* write is applied and counted but leaves the version at v + 1: a state
\* with fewer version steps than writes, which C11_Witness shows reached.
C11_LostUpdate ==
    [][ \A p \in Procs : \A q \in Procs \ {p} :
            ( /\ Writes(p)
              /\ StoreDone(q)
              /\ call[q].user_id = call[p].user_id
              /\ Truthy(existing[p])
              /\ existing[q] = existing[p]
              /\ HasDoc(collection, call[p].user_id)
              /\ FindOne(collection, call[p].user_id).version
                    = existing[p].version + 1 ) =>
                LET u == call[p].user_id
                    d == FindOne(collection', u)
                IN /\ d # None
                   /\ d.version = existing[p].version + 1
                   /\ d.version = FindOne(collection, u).version
                   /\ writes'[u] = writes[u] + 1
      ]_vars

\* C11's case: both calls have returned, having read the same version, and
\* the stored version counts one write where two were applied.
C11_Witness ==
    \E p \in Procs : \E q \in Procs \ {p} :
        /\ StoreDone(p)
        /\ StoreDone(q)
        /\ call[q].user_id = call[p].user_id
        /\ Truthy(existing[p])
        /\ existing[q] = existing[p]
        /\ existing[p].version = 1
        /\ writes[call[p].user_id] = 2
        /\ FindOne(collection, call[p].user_id).version = 2

OthersUnchanged(u) ==
    \A v \in Users \ {u} :
        /\ Cardinality(DocsOf(collection', v)) = Cardinality(DocsOf(collection, v))
        /\ FindOne(collection', v) = FindOne(collection, v)

\* C18: update_profile_insights changes only additional_insights, updated_at
\* and version of the user's document; it, store_finance_profile and
\* delete_profile leave every other user's document as it was.
C18_Frame ==
    [][ \A p \in Procs :
          /\ Patches(p) =>
                LET u == call[p].user_id
                    d == FindOne(collection, u)
                    e == FindOne(collection', u)
                IN /\ OthersUnchanged(u)
                   /\ Len(collection') = Len(collection)
                   /\ HasDoc(collection, u) =>
                        /\ e._id = d._id
                        /\ e.user_id = d.user_id
                        /\ e.finance_profile = d.finance_profile
                        /\ e.profile_summary = d.profile_summary
                        /\ e.created_at = d.created_at
          /\ Writes(p) => OthersUnchanged(call[p].user_id)
          /\ Calls(p, "delete") => OthersUnchanged(call'[p].user_id)
      ]_vars

\* C18's case: a document with a summary has been patched while another
\* user's document is stored.
C18_Witness ==
    \E p \in Procs :
        /\ pc[p] = "done"
        /\ call[p].op = "patch"
        /\ ret[p] = Bool(TRUE)
        /\ Len(collection) = 2
        /\ FindOne(collection, call[p].user_id).profile_summary = Str("s1")

\* C19: update_one is one atomic step of the store: a patch that runs while
\* other callers' patches of the same document are in flight returns True,
\* raises the stored version by exactly 1 and leaves its own new_insights;
\* so n overlapping patches raise the version by n.
C19_PatchAtomic ==
    [][ \A p \in Procs :
            (Patches(p) /\ HasDoc(collection, call[p].user_id)) =>
                LET u == call[p].user_id
                    d == FindOne(collection, u)
                    e == FindOne(collection', u)
                IN /\ ret'[p] = Bool(TRUE)
                   /\ e.version = d.version + 1
                   /\ writes'[u] = writes[u] + 1
                   /\ e.additional_insights = call[p].new_insights
                   /\ \A q \in Procs \ {p} :
                        (pc[q] = "update" /\ call[q].user_id = u) =>
                            /\ pc'[q] = "update"
                            /\ call'[q] = call[q]
                            /\ stamp'[q] = stamp[q]
      ]_vars

\* C19's case: two patches of one document have both returned True and the
\* version is 2 higher than the created document's.
C19_Witness ==
    \E p \in Procs : \E q \in Procs \ {p} :
        /\ pc[p] = "done" /\ call[p].op = "patch" /\ ret[p] = Bool(TRUE)
        /\ pc[q] = "done" /\ call[q].op = "patch" /\ ret[q] = Bool(TRUE)
        /\ call[p].user_id = call[q].user_id
        /\ writes[call[p].user_id] = 2
        /\ FindOne(collection, call[p].user_id).version = 3

\* C15: the backing store is selected once, by the constructor, and by no
\* method call: once set, client never changes; the in-memory stand-in is
\* selected only when the server does not answer the constructor and
\* mongomock can be imported, otherwise the failure is the constructor's
\* exception; a method whose collection call finds no server raises to its
\* caller, writes nothing and leaves client as it was, and a method served
\* by the stand-in takes the same steps as one served by the server.
C15_StaticBackend ==
    [][ /\ client # "unset" => client' = client
        /\ mongomock' = mongomock
        /\ client' # client =>
              /\ \A p \in Procs : pc[p] = "idle" /\ pc'[p] = "idle"
              /\ collection' = collection
              /\ client' = "MongoClient" <=> mongoUp
              /\ client' = "mongomock" <=> (~mongoUp /\ mongomock)
              /\ client' = "error" <=> (~mongoUp /\ ~mongomock)
        /\ \A p \in Procs :
              /\ (pc'[p] # pc[p] \/ call'[p] # call[p]) => Constructed
              /\ (ret'[p] = Raised /\ ret[p] # Raised) =>
                    /\ client = "MongoClient" /\ ~mongoUp
                    /\ collection' = collection
              /\ (collection' # collection \/ (pc[p] = "find" /\ pc'[p] = "write")) =>
                    Answers
              /\ (pc'[p] = "done" /\ pc[p] # "done" /\ call'[p].op # "store"
                    /\ call'[p].op # "patch" /\ ~Answers) =>
                    ret'[p] = Raised
              /\ (pc'[p] = "done" /\ pc[p] \in {"write", "update"} /\ ~Answers) =>
                    ret'[p] = Raised
      ]_vars

\* C15's case: the store was constructed on the server with mongomock
\* importable, a document was stored, and a later call found no server: it
\* raised, and the client is still the MongoClient.
C15_Witness ==
    \E p \in Procs :
        /\ ret[p] = Raised
        /\ client = "MongoClient"
        /\ mongomock
        /\ ~mongoUp
        /\ Len(collection) > 0

\* _parse_llm_json returns for an output what it returns for the payload.
FenceStrippingLlm ==
    \A p \in Procs :
        (pc[p] = "done" /\ call[p].op = "_parse_llm_json") =>
            /\ ret[p] = ParseLlmJson(call[p].payload)
            /\ ret[p] = Loads(call[p].payload)
            /\ ~IsRaise(ret[p])

\* _parse_slm_response returns or raises for an output what it returns or
\* raises for the payload.
FenceStrippingSlm ==
    \A p \in Procs :
        (pc[p] = "done" /\ call[p].op = "_parse_slm_response") =>
            /\ ret[p] = ParseSlmResponse(call[p].payload)
            /\ ~IsRaise(ret[p]) => ret[p] = Loads(call[p].payload)

\* C17: a JSON object text in a json fence, with whitespace around the
\* fence and inside it, parses to what the text parses to bare: the same
\* value from _parse_llm_json, and from _parse_slm_response the same value
\* or, for a mapping without a required key, the same ValueError.
C17_FenceStripping == FenceStrippingLlm /\ FenceStrippingSlm

\* C17's case: both parsers have returned the mapping of a fenced output
\* that has whitespace before the fence and inside it.
C17_Witness ==
    /\ pc[1] = "done" /\ call[1].op = "_parse_llm_json"
    /\ call[1].fenced
    /\ StartsWith(call[1].text, <<"\n", " ">> \o Fence \o <<"\n">>)
    /\ ret[1] = Dict({<<"a", Num(1)>>})
    /\ pc[2] = "done" /\ call[2].op = "_parse_slm_response"
    /\ call[2].fenced
    /\ StartsWith(call[2].text, <<" ">> \o Fence \o <<"\n">>)
    /\ ~IsRaise(ret[2])
    /\ HasKey(ret[2], "profile_summary")

\* The provider output is malformed: after the fence stripping it is not
\* JSON, or it is a mapping without one of the two required keys.
Malformed(r) ==
    LET v == Loads(CleanSlm(r))
    IN \/ v = JSONDecodeError
       \/ ~HasKey(v, "FinanceProfile")
       \/ ~HasKey(v, "profile_summary")

\* Caller p enters analyze_user_finances.
Analyzes(p) == pc[p] = "idle" /\ pc'[p] # "idle"

\* C12: on a malformed provider output analyze_user_finances returns, in
\* one step that leaves the collection as it was, a result with
\* analysis_status "failed" and an error message; only calls with a
\* well-formed output get into store_finance_profile or change the
\* collection.
C12_MalformedFails ==
    [][ /\ \A p \in Procs :
              /\ (Analyzes(p) /\ Malformed(call'[p].response)) =>
                    /\ pc'[p] = "done"
                    /\ DOMAIN ret'[p] = {"user_id", "error", "analysis_status"}
                    /\ ret'[p].analysis_status = "failed"
                    /\ ret'[p].error # ""
                    /\ ret'[p].user_id = call'[p].user_id
                    /\ collection' = collection
                    /\ nextId' = nextId
              /\ pc'[p] \in {"stamp", "find", "write"} =>
                    ~Malformed(call'[p].response)
        /\ collection' # collection =>
              \E p \in Procs : Writes(p) /\ ~Malformed(call[p].response)
      ]_vars

\* C12's case: with two documents stored, an output that lacks
\* profile_summary has been answered with a failed result.
C12_Witness ==
    \E p \in Procs :
        /\ pc[p] = "done"
        /\ call[p].op = "analyze"
        /\ call[p].response = Fence \o <<"\n">> \o TextNoSummary \o <<"\n">> \o FenceEnd
        /\ ret[p].analysis_status = "failed"
        /\ Len(collection) = 2

\* The FinanceProfile mapping of a well-formed output.
RawProfile(r) == Item(Loads(CleanSlm(r)), "FinanceProfile")

\* The output is well-formed and its FinanceProfile cannot be coerced.
CoercionFails(r) == ~Malformed(r) /\ ModelDump(RawProfile(r)) = Invalid

\* C13: when the output is well-formed and the coercion fails,
\* analyze_user_finances calls store_finance_profile with the raw mapping;
\* the one write of that call leaves one document of the user, holding the
\* raw mapping, and no other step of the analysis changes the collection;
\* the result is a success with the raw mapping and the id the store
\* returned, which is the id of the stored document.
C13_RawFallback ==
    [][ \A p \in Procs :
          /\ (Analyzes(p) /\ CoercionFails(call'[p].response)) =>
                /\ pc'[p] = "stamp"
                /\ call'[p].op = "store"
                /\ call'[p].profile_data = RawProfile(call'[p].response)
          /\ (Writes(p) /\ CoercionFails(call[p].response)) =>
                LET u == call[p].user_id
                    d == FindOne(collection', u)
                IN /\ d # None
                   /\ d.finance_profile = RawProfile(call[p].response)
                   /\ Cardinality(DocsOf(collection', u)) = 1
                   /\ Len(collection') =
                        Len(collection) + (IF HasDoc(collection, u) THEN 0 ELSE 1)
                   /\ OthersUnchanged(u)
                   /\ ret'[p] = Str(d._id)
          /\ (call[p].op = "store" /\ CoercionFails(call[p].response)
                /\ ~Writes(p)) => collection' = collection
          /\ (call[p].op = "store" /\ call'[p].op = "analyze"
                /\ CoercionFails(call[p].response)) =>
                /\ ret'[p].analysis_status = "success"
                /\ ret'[p].document_id = ret[p]
                /\ ret'[p].document_id
                     = Str(FindOne(collection', call[p].user_id)._id)
                /\ ret'[p].finance_profile = RawProfile(call[p].response)
                /\ ret'[p].user_id = call[p].user_id
      ]_vars

\* C13's case: a second analysis of a user, whose output has an age that is
\* no number, has returned success and the raw mapping is stored as
\* version 2.
C13_Witness ==
    \E p \in Procs :
        /\ pc[p] = "done"
        /\ call[p].op = "analyze"
        /\ call[p].response = RespRaw
        /\ ret[p].analysis_status = "success"
        /\ FindOne(collection, call[p].user_id).finance_profile
             = Dict({<<"user_age_years", Str("x")>>})
        /\ FindOne(collection, call[p].user_id).version = 2

\* The values directly inside a mapping or a sequence.
Children(v) ==
    IF v.t = "dict" THEN {kv[2] : kv \in v.kv}
    ELSE IF v.t = "list" THEN {v.items[i] : i \in 1..Len(v.items)}
    ELSE {}

RECURSIVE NoNullBelow(_)
\* No null and no empty mapping or sequence anywhere inside v.
NoNullBelow(v) ==
    \A c \in Children(v) :
        /\ c # None
        /\ c # EmptyDict
        /\ c # List(<<>>)
        /\ NoNullBelow(c)

RECURSIVE Leaves(_, _)
\* The non-null scalars of v, each with its path of keys and indices.
Leaves(v, path) ==
    IF v.t = "dict"
    THEN UNION {Leaves(kv[2], Append(path, [key |-> kv[1]])) : kv \in v.kv}
    ELSE IF v.t = "list"
    THEN UNION {Leaves(v.items[i], Append(path, [idx |-> i])) :
                    i \in 1..Len(v.items)}
    ELSE IF v = None THEN {}
    ELSE {<<path, v>>}

KeyOrder == <<"a", "b">>

RECURSIVE Flat(_, _), FlatKeys(_, _, _), FlatItems(_, _, _)
\* The non-null scalars of v in order, each with the keys above it; a
\* sequence above it shows as "[]", without the index.
Flat(v, path) ==
    IF v.t = "dict" THEN FlatKeys(v, path, 1)
    ELSE IF v.t = "list" THEN FlatItems(v.items, path, 1)
    ELSE IF v = None THEN <<>>
    ELSE <<(<<path, v>>)>>

FlatKeys(v, path, i) ==
    IF i > Len(KeyOrder) THEN <<>>
    ELSE (IF HasKey(v, KeyOrder[i])
          THEN Flat(Item(v, KeyOrder[i]), Append(path, KeyOrder[i]))
          ELSE <<>>) \o FlatKeys(v, path, i + 1)

FlatItems(items, path, i) ==
    IF i > Len(items) THEN <<>>
    ELSE Flat(items[i], Append(path, "[]")) \o FlatItems(items, path, i + 1)

\* Caller p holds the result of _remove_nulls.
Stripped(p) == pc[p] = "done" /\ call[p].op = "_remove_nulls"

\* C16 as stated: every non-null scalar of the argument is in the result at
\* the path, keys and indices, it had in the argument.
C16_ScalarsInPlace ==
    \A p \in Procs :
        Stripped(p) =>
            Leaves(call[p].obj, <<>>) \subseteq Leaves(ret[p], <<>>)

\* C16: the result of _remove_nulls has no null and no empty mapping or
\* sequence below the top level and is of the type of the argument; it holds
\* the non-null scalars of the argument (0, false and "" among them) and
\* nothing else, each under the same keys and in the same order within its
\* sequence, its index lowered by the elements removed before it; and
\* _remove_nulls applied to the result returns the result.
C16_RemoveNulls ==
    \A p \in Procs :
        Stripped(p) =>
            /\ NoNullBelow(ret[p])
            /\ ret[p].t = call[p].obj.t
            /\ Flat(ret[p], <<>>) = Flat(call[p].obj, <<>>)
            /\ call[p].again => ret[p] = call[p].obj

\* C16's case: a mapping holding a sequence that starts with a null and a
\* mapping that strips to nothing has been stripped: 0 is kept, now first in
\* its sequence, and the emptied mapping is gone.
C16_Witness ==
    \E p \in Procs :
        /\ Stripped(p)
        /\ call[p].obj = Dict({<<"a", List(<<None, Num(0)>>)>>,
                               <<"b", Dict({<<"a", None>>})>>})
        /\ ret[p] = Dict({<<"a", List(<<Num(0)>>)>>})

====
